---- MODULE Spec2Model ----
(***************************************************************************)
(* A model of the LISP interpreter: lexer.rs (tokenize), parser.rs (parse, *)
(* parse_expression), value.rs (Value and its Display), environment.rs     *)
(* (Environment), program.rs (evaluate and the special forms) and main.rs  *)
(* (the read loop).                                                        *)
(*                                                                         *)
(* Text is a sequence of one-character strings.  A Symbol's name is such a *)
(* sequence too, so that the lexer really cuts names out of the text.      *)
(*                                                                         *)
(* An f64 is the triple <<s, n, d>>: sign s (1 or -1), magnitude n/d in    *)
(* lowest terms.  d = 0 is an infinity (n = 1) or NaN (n = 0); <<-1,0,1>>  *)
(* is the negative zero.  Finite results are exact: rounding and overflow  *)
(* of the 53-bit mantissa are outside the model.                           *)
(***************************************************************************)
EXTENDS Integers, Sequences, FiniteSets, TLC

VARIABLES input, val, env, out, pc, nread

vars == <<input, val, env, out, pc, nread>>

\* the number of lines a session reads
MaxLines == 3

(***************************************************************************)
(* f64                                                                     *)
(***************************************************************************)
RECURSIVE GCD(_, _)
GCD(a, b) == IF b = 0 THEN a ELSE GCD(b, a % b)

NaN == <<1, 0, 0>>

IsNaN(x) == x[2] = 0 /\ x[3] = 0

IsInf(x) == x[2] # 0 /\ x[3] = 0

\* the triple of the sign s and the magnitude n/d, in lowest terms
Norm(s, n, d) ==
    IF n = 0 /\ d = 0 THEN NaN
    ELSE LET g == GCD(n, d) IN <<s, n \div g, d \div g>>

\* the f64 of the integer k
FromInt(k) == IF k < 0 THEN <<-1, -k, 1>> ELSE <<1, k, 1>>

Neg(x) == IF IsNaN(x) THEN NaN ELSE <<-x[1], x[2], x[3]>>

FMul(a, b) == Norm(a[1] * b[1], a[2] * b[2], a[3] * b[3])

FDiv(a, b) == Norm(a[1] * b[1], a[2] * b[3], a[3] * b[2])

FAdd(a, b) ==
    IF IsNaN(a) \/ IsNaN(b) THEN NaN
    ELSE IF IsInf(a) /\ IsInf(b) THEN (IF a[1] = b[1] THEN a ELSE NaN)
    ELSE IF IsInf(a) THEN a
    ELSE IF IsInf(b) THEN b
    ELSE LET m == a[1] * a[2] * b[3] + b[1] * b[2] * a[3]
         IN  IF m = 0 THEN <<(IF a[1] = -1 /\ b[1] = -1 THEN -1 ELSE 1), 0, 1>>
             ELSE IF m < 0 THEN Norm(-1, -m, a[3] * b[3])
             ELSE Norm(1, m, a[3] * b[3])

FSub(a, b) == FAdd(a, Neg(b))

\* a < b on f64: false when either is NaN, the two zeros are equal
FLt(a, b) ==
    /\ ~IsNaN(a)
    /\ ~IsNaN(b)
    /\ IF IsInf(a) \/ IsInf(b)
       THEN \/ (IsInf(a) /\ a[1] = -1 /\ ~(IsInf(b) /\ b[1] = -1))
            \/ (IsInf(b) /\ b[1] = 1 /\ ~(IsInf(a) /\ a[1] = 1))
       ELSE a[1] * a[2] * b[3] < b[1] * b[2] * a[3]

FEq(a, b) ==
    /\ ~IsNaN(a)
    /\ ~IsNaN(b)
    /\ IF IsInf(a) \/ IsInf(b) THEN a = b
       ELSE a[1] * a[2] * b[3] = b[1] * b[2] * a[3]

\* 1.0 for true and 0.0 for false
Bool(b) == IF b THEN FromInt(1) ELSE FromInt(0)

(***************************************************************************)
(* value.rs: Value                                                         *)
(***************************************************************************)
Number(n) == [t |-> "Number", n |-> n]

Symbol(s) == [t |-> "Symbol", s |-> s]

List(l) == [t |-> "List", l |-> l]

Nil == [t |-> "Nil"]

Lambda(args, body) == [t |-> "Lambda", args |-> args, body |-> body]

(***************************************************************************)
(* lexer.rs                                                                *)
(***************************************************************************)
TNumber(n) == [t |-> "Number", n |-> n]

TSymbol(s) == [t |-> "Symbol", s |-> s]

LParen == [t |-> "LParen"]

RParen == [t |-> "RParen"]

DigitChars == <<"0", "1", "2", "3", "4", "5", "6", "7", "8", "9">>

IsDigit(c) == \E i \in DOMAIN DigitChars : DigitChars[i] = c

DigitVal(c) == (CHOOSE i \in DOMAIN DigitChars : DigitChars[i] = c) - 1

IsSpace(c) == c \in {" ", "\n", "\t"}

\* the first index from i on that holds no digit: the end of \d* at i
DigitsEnd(s, i) ==
    CHOOSE j \in i .. Len(s) + 1 :
       /\ j > Len(s) \/ ~IsDigit(s[j])
       /\ \A k \in i .. j - 1 : IsDigit(s[k])

\* the index after the match of  -? \d+ (\.\d+)?  at i, or i when none
NumberEnd(s, i) ==
    LET j == IF s[i] = "-" THEN i + 1 ELSE i
        k == DigitsEnd(s, j)
    IN  IF k = j THEN i
        ELSE IF k <= Len(s) /\ s[k] = "." /\ DigitsEnd(s, k + 1) > k + 1
             THEN DigitsEnd(s, k + 1)
             ELSE k

\* a character the symbol pattern [^\s()] takes
IsSymbolChar(c) == ~IsSpace(c) /\ c \notin {"(", ")"}

\* the index after the match of  [^\s()]+  at i, or i when none
SymbolEnd(s, i) ==
    CHOOSE j \in i .. Len(s) + 1 :
       /\ j > Len(s) \/ ~IsSymbolChar(s[j])
       /\ \A k \in i .. j - 1 : IsSymbolChar(s[k])

RECURSIVE Pow10(_)
Pow10(k) == IF k = 0 THEN 1 ELSE 10 * Pow10(k - 1)

\* the natural number a string of digits writes
RECURSIVE DigitsVal(_)
DigitsVal(ds) ==
    IF ds = <<>> THEN 0
    ELSE 10 * DigitsVal(SubSeq(ds, 1, Len(ds) - 1)) + DigitVal(ds[Len(ds)])

\* str::parse::<f64> on a match of the number pattern
ParseF64(m) ==
    LET sgn  == IF m[1] = "-" THEN -1 ELSE 1
        body == IF m[1] = "-" THEN Tail(m) ELSE m
        dot  == IF \E i \in DOMAIN body : body[i] = "."
                THEN CHOOSE i \in DOMAIN body : body[i] = "."
                ELSE Len(body) + 1
        ip   == SubSeq(body, 1, dot - 1)
        fp   == SubSeq(body, dot + 1, Len(body))
    IN  Norm(sgn, DigitsVal(ip) * Pow10(Len(fp)) + DigitsVal(fp), Pow10(Len(fp)))

\* the index after the match at b, the alternatives tried in order
MatchEnd(s, b) ==
    CASE NumberEnd(s, b) > b -> NumberEnd(s, b)
      [] OTHER -> IF SymbolEnd(s, b) > b THEN SymbolEnd(s, b) ELSE b + 1

\* the token of the match s[b .. e - 1], by the group that captured it
Capture(s, b, e) ==
    CASE NumberEnd(s, b) > b -> TNumber(ParseF64(SubSeq(s, b, e - 1)))
      [] OTHER -> IF SymbolEnd(s, b) > b THEN TSymbol(SubSeq(s, b, e - 1))
                  ELSE IF s[b] = "(" THEN LParen ELSE RParen

\* the starts of the matches in a run of symbol characters, scanned from b:
\* the match after a number starts where the number ends, and a symbol
\* takes all that is left of the run
RECURSIVE MatchesFrom(_, _)
MatchesFrom(s, b) ==
    {b} \cup (IF MatchEnd(s, b) <= Len(s) /\ IsSymbolChar(s[MatchEnd(s, b)])
              THEN MatchesFrom(s, MatchEnd(s, b))
              ELSE {})

\* captures_iter: where the matches start.  No match holds white space, a
\* parenthesis is a match of its own, and a run of symbol characters is
\* scanned from its first character
MatchStarts(s) ==
    {i \in DOMAIN s : s[i] \in {"(", ")"}}
    \cup UNION {MatchesFrom(s, b) :
                  b \in {i \in DOMAIN s :
                            IsSymbolChar(s[i]) /\ (i = 1 \/ ~IsSymbolChar(s[i - 1]))}}

\* the k-th smallest element of the set of numbers S
Nth(S, k) == CHOOSE b \in S : Cardinality({x \in S : x <= b}) = k

\* one token for each match, from the left
tokenize(program) ==
    LET starts == MatchStarts(program) IN
    [k \in 1 .. Cardinality(starts) |->
        LET b == Nth(starts, k) IN Capture(program, b, MatchEnd(program, b))]

(***************************************************************************)
(* parser.rs                                                               *)
(***************************************************************************)
POk(v, rest) == [ok |-> TRUE, v |-> v, rest |-> rest, err |-> ""]

PErr(e) == [ok |-> FALSE, v |-> Nil, rest |-> <<>>, err |-> e]

\* tokens holds the tokens still to read, the next one first
RECURSIVE parse_expression(_), parse_list(_, _)
parse_expression(tokens) ==
    IF tokens = <<>> THEN PErr("Unexpected end of input")
    ELSE LET token == Head(tokens) IN
         CASE token.t = "Number" -> POk(Number(token.n), Tail(tokens))
           [] token.t = "Symbol" -> POk(Symbol(token.s), Tail(tokens))
           [] token.t = "LParen" -> parse_list(Tail(tokens), <<>>)
           [] token.t = "RParen" -> PErr("Unexpected closing parenthesis")

\* the loop of the LParen arm, list holding the elements parsed so far
parse_list(tokens, list) ==
    IF tokens = <<>> THEN PErr("Unbalanced parentheses")
    ELSE IF Head(tokens) = RParen THEN POk(List(list), Tail(tokens))
    ELSE LET parsed_expression == parse_expression(tokens) IN
         IF parsed_expression.ok
         THEN parse_list(parsed_expression.rest, Append(list, parsed_expression.v))
         ELSE parsed_expression

\* the while loop of parse
RECURSIVE parse_all(_, _)
parse_all(tokens, expressions) ==
    IF tokens = <<>> THEN POk(expressions, <<>>)
    ELSE LET parsed_expression == parse_expression(tokens) IN
         IF parsed_expression.ok
         THEN parse_all(parsed_expression.rest, Append(expressions, parsed_expression.v))
         ELSE parsed_expression

\* parse wrapping a single top-level expression in a List too
parse_AlwaysWrap(program) ==
    LET r == parse_all(tokenize(program), <<>>) IN
    IF ~r.ok THEN r ELSE POk(List(r.v), <<>>)

parse(program) ==
    LET r == parse_all(tokenize(program), <<>>) IN
    IF ~r.ok THEN r
    ELSE IF Len(r.v) = 1 THEN POk(r.v[1], <<>>)
    ELSE POk(List(r.v), <<>>)

(***************************************************************************)
(* value.rs: Display                                                       *)
(***************************************************************************)
\* the decimal digits of the natural number k
RECURSIVE NatChars(_)
NatChars(k) ==
    IF k < 10 THEN <<DigitChars[k + 1]>>
    ELSE NatChars(k \div 10) \o <<DigitChars[(k % 10) + 1]>>

\* the digits after the point of r/d, r < d, for a d that divides a power of ten
RECURSIVE FracChars(_, _)
FracChars(r, d) ==
    IF r = 0 THEN <<>>
    ELSE <<DigitChars[((10 * r) \div d) + 1]>> \o FracChars((10 * r) % d, d)

\* Display of an f64 whose decimal expansion ends, as every literal's does
FmtF64(x) ==
    (IF x[1] = -1 /\ ~IsNaN(x) THEN <<"-">> ELSE <<>>) \o
    (IF IsNaN(x) THEN <<"N", "a", "N">>
     ELSE IF IsInf(x) THEN <<"i", "n", "f">>
     ELSE NatChars(x[2] \div x[3]) \o
          (IF x[2] % x[3] = 0 THEN <<>>
           ELSE <<".">> \o FracChars(x[2] % x[3], x[3])))

RECURSIVE Display(_), DisplayItems(_, _), DisplayArgs(_), DisplayBody(_)
Display(v) ==
    CASE v.t = "Number" -> FmtF64(v.n)
      [] v.t = "Symbol" -> v.s
      [] v.t = "List"   -> <<"(">> \o DisplayItems(v.l, 1) \o <<")">>
      [] v.t = "Nil"    -> <<"n", "i", "l">>
      [] v.t = "Lambda" ->
            <<"f", "n", "(">> \o DisplayArgs(v.args) \o <<")">> \o DisplayBody(v.body)

DisplayItems(l, i) ==
    IF i > Len(l) THEN <<>>
    ELSE (IF i > 1 THEN <<" ">> ELSE <<>>) \o Display(l[i]) \o DisplayItems(l, i + 1)

DisplayArgs(args) ==
    IF args = <<>> THEN <<>> ELSE Head(args) \o <<" ">> \o DisplayArgs(Tail(args))

DisplayBody(body) ==
    IF body = <<>> THEN <<>>
    ELSE <<" ">> \o Display(Head(body)) \o DisplayBody(Tail(body))

(***************************************************************************)
(* environment.rs.  An Env is the chain of frames from the root (first) to *)
(* the current frame (last): a frame's parent is the frame before it.  A   *)
(* Lambda holds no Env, and a call's frame is dropped when the call        *)
(* returns, so the live frames always form such a chain.                   *)
(***************************************************************************)
Some(v) == [some |-> TRUE, v |-> v]

None == [some |-> FALSE, v |-> Nil]

\* Environment::new: no parent, no variables
new == <<>>

extend(parent) == Append(parent, new)

\* get without the walk to the parent
get_CurrentFrameOnly(e, name) ==
    IF e = <<>> THEN None
    ELSE IF name \in DOMAIN e[Len(e)] THEN Some(e[Len(e)][name])
    ELSE None

RECURSIVE get(_, _)
get(e, name) ==
    IF e = <<>> THEN None
    ELSE IF name \in DOMAIN e[Len(e)] THEN Some(e[Len(e)][name])
    ELSE get(SubSeq(e, 1, Len(e) - 1), name)

\* set writing into the root frame, as a global assignment would
set_InRoot(e, name, v) ==
    [e EXCEPT ![1] =
        [x \in (DOMAIN @) \cup {name} |-> IF x = name THEN v ELSE @[x]]]

\* HashMap::insert on the variables of the current frame
set(e, name, v) ==
    [e EXCEPT ![Len(e)] =
        [x \in (DOMAIN @) \cup {name} |-> IF x = name THEN v ELSE @[x]]]

(***************************************************************************)
(* program.rs.  A result is Ok with a Value, Err with a message, or Panic  *)
(* when the code aborts (an unwrap of None, an index or a slice out of     *)
(* range); env is the chain as the evaluation left it.                     *)
(***************************************************************************)
Ok(v, e) == [k |-> "Ok", v |-> v, err |-> <<>>, env |-> e]

Err(msg, e) == [k |-> "Err", v |-> Nil, err |-> msg, env |-> e]

Panic(e) == [k |-> "Panic", v |-> Nil, err |-> <<>>, env |-> e]

S_not == <<"n", "o", "t">>

S_let == <<"l", "e", "t">>

S_fn == <<"f", "n">>

S_cond == <<"c", "o", "n", "d">>

S_add == <<"+">>

S_sub == <<"-">>

S_mul == <<"*">>

S_div == <<"/">>

S_gt == <<"g", "t">>

S_gte == <<"g", "t", "e">>

S_lt == <<"l", "t">>

S_lte == <<"l", "t", "e">>

S_eq == <<"e", "q">>

Operators == {S_add, S_sub, S_mul, S_div, S_gt, S_gte, S_lt, S_lte, S_eq}

\* the step with its operands exchanged
fold_step_Swapped(s, acc, n) ==
    CASE s = S_add -> FAdd(n, acc)
      [] s = S_sub -> FSub(n, acc)
      [] s = S_mul -> FMul(n, acc)
      [] s = S_div -> FDiv(n, acc)
      [] s = S_gt  -> Bool(FLt(acc, n))
      [] s = S_gte -> Bool(FLt(acc, n) \/ FEq(acc, n))
      [] s = S_lt  -> Bool(FLt(n, acc))
      [] s = S_lte -> Bool(FLt(n, acc) \/ FEq(acc, n))
      [] s = S_eq  -> Bool(FEq(acc, n))

\* one step of the fold of bin_op: the closure's match on the operator
fold_step(s, acc, n) ==
    CASE s = S_add -> FAdd(acc, n)
      [] s = S_sub -> FSub(acc, n)
      [] s = S_mul -> FMul(acc, n)
      [] s = S_div -> FDiv(acc, n)
      [] s = S_gt  -> Bool(FLt(n, acc))
      [] s = S_gte -> Bool(FLt(n, acc) \/ FEq(acc, n))
      [] s = S_lt  -> Bool(FLt(acc, n))
      [] s = S_lte -> Bool(FLt(acc, n) \/ FEq(acc, n))
      [] s = S_eq  -> Bool(FEq(acc, n))

\* try_fold over operands[i..]: an f64, or the error of the first bad step
RECURSIVE try_fold(_, _, _, _)
try_fold(op, acc, operands, i) ==
    IF i > Len(operands) THEN [ok |-> TRUE, n |-> acc, err |-> <<>>]
    ELSE IF operands[i].t # "Number"
         THEN [ok |-> FALSE, n |-> acc, err |-> <<"Operands must be numbers">>]
    ELSE IF op.t # "Symbol"
         THEN [ok |-> FALSE, n |-> acc, err |-> <<"Operator must be a symbol">>]
    ELSE IF op.s \notin Operators
         THEN [ok |-> FALSE, n |-> acc, err |-> <<"Invalid operator ", op.s>>]
    ELSE try_fold(op, fold_step(op.s, acc, operands[i].n), operands, i + 1)

\* _fn reads no environment: its result without the env field
_fn(list) ==
    IF Len(list) < 2 THEN [k |-> "Panic", v |-> Nil, err |-> <<>>]
    ELSE IF list[2].t # "List"
         THEN [k |-> "Err", v |-> Nil, err |-> <<"Invalid function">>]
    ELSE IF \E i \in DOMAIN list[2].l : list[2].l[i].t # "Symbol"
         THEN [k |-> "Err", v |-> Nil, err |-> <<"Invalid function argument">>]
    ELSE IF Len(list) < 3 THEN [k |-> "Panic", v |-> Nil, err |-> <<>>]
    ELSE IF list[3].t # "List"
         THEN [k |-> "Err", v |-> Nil, err |-> <<"Invalid function">>]
    ELSE [k |-> "Ok", err |-> <<>>,
          v |-> Lambda([i \in DOMAIN list[2].l |-> list[2].l[i].s], list[3].l)]

\* push without the match on Nil
push_result_KeepNil(new_list, res) == Append(new_list, res)

\* a result that is not Nil is pushed on new_list
push_result(new_list, res) ==
    IF res.t = "Nil" THEN new_list ELSE Append(new_list, res)

\* list.first() is a Symbol
HeadIsSymbol(l) == l # <<>> /\ l[1].t = "Symbol"

\* list.first() is a Symbol of one of the names
HeadIn(l, names) == HeadIsSymbol(l) /\ l[1].s \in names

\* the names list matches before it takes a Symbol for the name of a function
SpecialNames == {S_not, S_let, S_fn, S_cond} \cup Operators

RECURSIVE value(_, _), symbol(_, _), list(_, _), list_each(_, _, _, _),
          bin_op(_, _), operands_of(_, _, _, _), not(_, _), _let(_, _),
          call(_, _, _), call_args(_, _, _, _, _), cond(_, _), cond_loop(_, _, _)

\* cond with its loop starting one clause late
cond_FromSecond(conds, e) ==
    IF Len(conds) < 2 THEN Panic(e) ELSE cond_loop(conds, 3, e)

value(node, e) ==
    CASE node.t = "Symbol" -> symbol(node.s, e)
      [] node.t = "Number" -> Ok(Number(node.n), e)
      [] node.t = "List"   -> list(node.l, e)
      [] OTHER             -> Ok(Nil, e)

symbol(s, e) ==
    IF get(e, s).some THEN Ok(get(e, s).v, e)
    ELSE Err(<<"Unbound symbol ", s>>, e)

\* the arms exclude one another: first() is None, or a Symbol of one of the
\* names, or a Symbol of another name, or no Symbol
list(l, e) ==
    CASE l = <<>>                  -> Panic(e)
      [] HeadIn(l, {S_not})        -> not(l, e)
      [] HeadIn(l, Operators)      -> bin_op(l, e)
      [] HeadIn(l, {S_let})        -> _let(l, e)
      [] HeadIn(l, {S_fn})         ->
             [k |-> _fn(l).k, v |-> _fn(l).v, err |-> _fn(l).err, env |-> e]
      [] HeadIn(l, {S_cond})       -> cond(l, e)
      [] HeadIsSymbol(l) /\ l[1].s \notin SpecialNames -> call(l[1].s, l, e)
      [] OTHER                     -> list_each(l, 1, <<>>, e)

\* the for loop of list from element i on, new_list holding the results so far
list_each(l, i, new_list, e) ==
    IF i > Len(l) THEN Ok(List(new_list), e)
    ELSE LET res == value(l[i], e) IN
         IF res.k # "Ok" THEN res
         ELSE list_each(l, i + 1, push_result(new_list, res.v), res.env)

\* map(value).collect() over list[i..]: the operands, or the first failure
operands_of(l, i, acc, e) ==
    LET res == value(l[i], e) IN
    CASE i > Len(l)                   -> Ok(acc, e)
      [] i <= Len(l) /\ res.k # "Ok" -> res
      [] OTHER -> operands_of(l, i + 1, Append(acc, res.v), res.env)

bin_op(l, e) ==
    IF Len(l) < 3 THEN Err(<<"Insufficient number of arguments">>, e)
    ELSE LET operands == operands_of(l, 2, <<>>, e) IN
         IF operands.k # "Ok" THEN operands
         ELSE IF operands.v[1].t # "Number"
              THEN Err(<<"Operands must be numbers">>, operands.env)
         ELSE LET final_result == try_fold(l[1], operands.v[1].n, operands.v, 2) IN
              IF final_result.ok THEN Ok(Number(final_result.n), operands.env)
              ELSE Err(final_result.err, operands.env)

not(l, e) ==
    IF Len(l) # 2 THEN Err(<<"Incorrect number of arguments">>, e)
    ELSE LET res == value(l[2], e) IN
         IF res.k = "Panic" THEN res
         ELSE IF res.k = "Ok" /\ res.v.t = "Number"
              THEN Ok(Number(Bool(FEq(res.v.n, FromInt(0)))), res.env)
         ELSE Err(<<"Invalid argument">>, res.env)

_let(l, e) ==
    IF Len(l) # 3 THEN Err(<<"Invalid number of arguments for let">>, e)
    ELSE IF l[2].t # "Symbol" THEN Err(<<"Invalid let">>, e)
    ELSE LET res == value(l[3], e) IN
         IF res.k # "Ok" THEN res
         ELSE Ok(Nil, set(res.env, l[2].s, res.v))

\* the for loop of call from parameter i on: the arguments are evaluated in
\* the caller's env e and bound in new_frame, the frame of the call
call_args(args, l, i, e, new_frame) ==
    IF i > Len(args) THEN Ok(Nil, [extend(e) EXCEPT ![Len(e) + 1] = new_frame])
    ELSE IF i + 1 > Len(l) THEN Panic(e)
    ELSE LET res == value(l[i + 1], e) IN
         IF res.k # "Ok" THEN res
         ELSE call_args(args, l, i + 1, res.env,
                        set(<<new_frame>>, args[i], res.v)[1])

\* call with the frame of the call under the root frame alone, as if the
\* Lambda had kept the scope of its definition at the top level
call_UnderRoot(s, l, e) ==
    LET func      == get(e, s).v
        is_lambda == get(e, s).some /\ func.t = "Lambda"
        new_env   == call_args(func.args, l, 1, e, new)
    IN  CASE ~get(e, s).some                       -> Err(<<"Unbound symbol ", s>>, e)
          [] get(e, s).some /\ func.t # "Lambda"   -> Err(<<"Not a lambda: ", s>>, e)
          [] is_lambda /\ new_env.k # "Ok"         -> new_env
          [] OTHER ->
               [value(List(func.body), <<e[1], new_env.env[Len(e) + 1]>>) EXCEPT
                   !.env = <<@[1]>> \o SubSeq(e, 2, Len(e))]

\* the frame of the call is dropped when call returns: the env of the result
\* is the caller's chain, as the body left it
call(s, l, e) ==
    LET func      == get(e, s).v
        is_lambda == get(e, s).some /\ func.t = "Lambda"
        new_env   == call_args(func.args, l, 1, e, new)
    IN  CASE ~get(e, s).some                       -> Err(<<"Unbound symbol ", s>>, e)
          [] get(e, s).some /\ func.t # "Lambda"   -> Err(<<"Not a lambda: ", s>>, e)
          [] is_lambda /\ new_env.k # "Ok"         -> new_env
          [] OTHER ->
               [value(List(func.body), new_env.env) EXCEPT
                   !.env = SubSeq(@, 1, Len(e))]

\* the for loop of cond over conds[i .. len-2] and the default after it
cond_loop(conds, i, e) ==
    LET in_loop == i <= Len(conds) - 1
        tested  == in_loop /\ conds[i].t = "List" /\ conds[i].l # <<>>
        res     == value(conds[i].l[1], e)
        matched == /\ tested
                   /\ res.k = "Ok"
                   /\ res.v.t = "Number"
                   /\ ~FEq(res.v.n, FromInt(0))
    IN  CASE ~in_loop                              -> value(conds[Len(conds)], e)
          [] in_loop /\ conds[i].t # "List"        -> cond_loop(conds, i + 1, e)
          [] in_loop /\ conds[i].t = "List" /\ conds[i].l = <<>> -> Panic(e)
          [] tested /\ res.k # "Ok"                -> res
          [] matched /\ Len(conds[i].l) < 2        -> Panic(res.env)
          [] matched /\ Len(conds[i].l) >= 2       -> value(conds[i].l[2], res.env)
          [] OTHER                                 -> cond_loop(conds, i + 1, res.env)

cond(conds, e) ==
    IF Len(conds) < 2 THEN Panic(e) ELSE cond_loop(conds, 2, e)


\* evaluate working on a copy of the environment: what it binds is lost
evaluate_OnCopy(source, e) ==
    IF parse(source).ok THEN [value(parse(source).v, e) EXCEPT !.env = e]
    ELSE Err(<<"Something hapened?">>, e)

\* evaluate undoing what a failed evaluation bound
evaluate_Rollback(source, e) ==
    IF parse(source).ok
    THEN (IF value(parse(source).v, e).k = "Ok" THEN value(parse(source).v, e)
          ELSE [value(parse(source).v, e) EXCEPT !.env = e])
    ELSE Err(<<"Something hapened?">>, e)

evaluate(source, e) ==
    IF parse(source).ok THEN value(parse(source).v, e)
    ELSE Err(<<"Something hapened?">>, e)

(***************************************************************************)
(* Source texts                                                            *)
(***************************************************************************)
\* the texts ts[i..], one space between two of them
RECURSIVE Join(_, _)
Join(ts, i) ==
    IF i > Len(ts) THEN <<>>
    ELSE (IF i > 1 THEN <<" ">> ELSE <<>>) \o ts[i] \o Join(ts, i + 1)

\* the parenthesized form of the texts ts
Form(ts) == <<"(">> \o Join(ts, 1) \o <<")">>

QuitText == <<"q", "u", "i", "t">>

(***************************************************************************)
(* main.rs: the read loop.  pc is "read" where the loop calls read_line,   *)
(* "line" once read_line gave a line, "exit" once main returned Ok(()),    *)
(* "error" once it returned the Err of evaluate through `?`, "abort" once  *)
(* the process panicked.  The terminal is not part of the state: what      *)
(* println! writes is not modelled.                                        *)
(***************************************************************************)
\* read_line gives Input(line), a line of Lines or quit
ReadLine(Lines) ==
    /\ pc = "read"
    /\ nread < MaxLines
    /\ input' \in Lines \cup {QuitText}
    /\ pc' = "line"
    /\ nread' = nread + 1
    /\ UNCHANGED <<val, env, out>>

\* the line is quit: break
Quit ==
    /\ pc = "line"
    /\ input = QuitText
    /\ pc' = "exit"
    /\ UNCHANGED <<input, val, env, out, nread>>

\* the line is evaluated in the root environment and the value printed; an
\* Err leaves main through `?`
Eval ==
    /\ pc = "line"
    /\ input # QuitText
    /\ val' = evaluate(input, env)
    /\ env' = val'.env
    /\ pc' = CASE val'.k = "Ok"    -> "read"
               [] val'.k = "Err"   -> "error"
               [] val'.k = "Panic" -> "abort"
    /\ UNCHANGED <<input, out, nread>>

\* read_line gives Eof or Signal: the while let ends
ReadEof ==
    /\ pc = "read"
    /\ pc' = "exit"
    /\ UNCHANGED <<input, val, env, out, nread>>

\* main before the loop: the root Environment, nothing read or evaluated yet
Init ==
    /\ input = <<>>
    /\ val = Ok(Nil, <<new>>)
    /\ env = <<new>>
    /\ out = <<>>
    /\ pc = "read"
    /\ nread = 0

(***************************************************************************)
(* The session: the lines a user types at the prompt                       *)
(***************************************************************************)
\* the lines (factorial n) of a session go from n = 0 to n = MaxFact
MaxFact == 3

\* the n of (factorial n) in test_conditional
TestFact == 5

N_b == <<"b">>

N_h == <<"h">>

N_c == <<"c">>

N_f == <<"f">>

N_zz == <<"z", "z">>

N_factorial == <<"f", "a", "c", "t", "o", "r", "i", "a", "l">>

T_10 == <<"1", "0">>

T_14 == <<"1", "4">>

\* (let name expr)
LetText(name, expr) == Form(<<S_let, name, expr>>)

\* the area line of the example: the product of b and h, divided by 2
AreaText == Form(<<S_div, Form(<<S_mul, N_b, N_h>>), <<"2">>>>)

\* (let b (+ b 1))
IncrText == LetText(N_b, Form(<<S_add, N_b, <<"1">>>>))

\* (let name num) (zz): a let, then a call of an unbound symbol
LetThenFail(name, num) == LetText(name, num) \o <<" ">> \o Form(<<N_zz>>)

\* (let name ((let other num) zz)): the value expression binds, then fails
LetNestedFail(name, other, num) ==
    LetText(name, Form(<<LetText(other, num), N_zz>>))

\* (let f (fn (b) ((let c b) (let b 2) c)))
FnDefText ==
    LetText(N_f, Form(<<S_fn, Form(<<N_b>>),
                        Form(<<LetText(N_c, N_b), LetText(N_b, <<"2">>), N_c>>)>>))

\* (f 5)
FnCallText == Form(<<N_f, <<"5">>>>)

\* the definition of factorial of test_conditional: let factorial be the
\* fn of n whose body is a cond of the clause ((lt n 1) 1) and the default
\* n times (factorial (- n 1))
FactDefText ==
    LetText(N_factorial,
        Form(<<S_fn, Form(<< <<"n">> >>),
               Form(<<S_cond,
                      Form(<<Form(<<S_lt, <<"n">>, <<"1">>>>), <<"1">>>>),
                      Form(<<S_mul, <<"n">>,
                             Form(<<N_factorial,
                                    Form(<<S_sub, <<"n">>, <<"1">>>>)>>)>>)>>)>>))

\* (factorial k)
FactCallText(k) == Form(<<N_factorial, NatChars(k)>>)

\* (+ 1  : the parentheses do not balance
UnbalancedText == <<"(", "+", " ", "1">>

SessionLines ==
    {LetText(n, x) : n \in {N_b, N_h}, x \in {T_10, T_14}}
    \cup {AreaText, IncrText, N_b, N_h, FnDefText, FnCallText, FactDefText,
          UnbalancedText, Form(<<S_eq, <<"4">>>>)}
    \cup {LetThenFail(n, T_14) : n \in {N_b, N_h}}
    \cup {LetText(n, N_zz) : n \in {N_b, N_h}}
    \cup {LetNestedFail(N_b, N_h, T_14)}
    \cup {FactCallText(k) : k \in (0 .. MaxFact) \cup {TestFact}}

Next == ReadLine(SessionLines) \/ Quit \/ Eval \/ ReadEof

Spec == Init /\ [][Next]_vars

\* a step of the loop that evaluated the line input
Evaluated == pc = "line" /\ pc' # "exit"

\* the names that let forms of node bind when node is evaluated: those of
\* its let forms outside fn forms, a fn form evaluating nothing of its body
RECURSIVE LetNames(_)
LetNames(node) ==
    IF node.t # "List" \/ node.l = <<>> THEN {}
    ELSE IF node.l[1] = Symbol(S_fn) THEN {}
    ELSE (IF node.l[1] = Symbol(S_let) /\ Len(node.l) >= 2 /\ node.l[2].t = "Symbol"
          THEN {node.l[2].s} ELSE {})
         \cup UNION {LetNames(node.l[i]) : i \in DOMAIN node.l}

\* a let form of a name and one more element
IsLet(node) ==
    /\ node.t = "List"
    /\ Len(node.l) = 3
    /\ node.l[1] = Symbol(S_let)
    /\ node.l[2].t = "Symbol"

\* what reading the symbol name gives in e: the kind and the value
Lookup(name, e) == <<evaluate(name, e).k, evaluate(name, e).v>>

(***************************************************************************)
(* C1: bindings persist across the evaluate calls of a session.  A step    *)
(* that evaluates (let name expr) with success leaves name reading as the  *)
(* value expr had; a step whose line has no let of a name leaves that name *)
(* reading as before; and the area line after b = 10 and h = 14 gives 70.  *)
(***************************************************************************)
C1_Step ==
    \A tree \in {parse(input).v} :
    /\ (IsLet(tree) /\ val'.k = "Ok")
          => Lookup(tree.l[2].s, env') = <<"Ok", value(tree.l[3], env).v>>
    /\ \A name \in (DOMAIN env[1]) \ LetNames(tree) :
          Lookup(name, env') = Lookup(name, env)
    /\ (/\ input = AreaText
        /\ Lookup(N_b, env) = <<"Ok", Number(FromInt(10))>>
        /\ Lookup(N_h, env) = <<"Ok", Number(FromInt(14))>>)
          => (val'.k = "Ok" /\ val'.v = Number(FromInt(70)))

C1_BindingsPersist == [][(Evaluated /\ parse(input).ok) => C1_Step]_vars

\* the third line of the example has been evaluated to 70
C1_Witness ==
    /\ input = AreaText
    /\ pc = "read"
    /\ val.k = "Ok"
    /\ val.v = Number(FromInt(70))
    /\ nread = 3

(***************************************************************************)
(* C3: no rollback.  A line that is a let and then a failing expression    *)
(* ends in the error with the binding of the let made.  A let whose value  *)
(* expression fails binds nothing itself: the environment is as the        *)
(* evaluation of the value expression left it, and unchanged when that     *)
(* expression holds no let.                                                *)
(***************************************************************************)
C3_Step ==
    \A tree \in {parse(input).v} :
    /\ \A n \in {N_b, N_h} :
          input = LetThenFail(n, T_14)
             => (val'.k = "Err" /\ env' = set(env, n, Number(FromInt(14))))
    /\ (IsLet(tree) /\ val'.k = "Err")
          => /\ env' = value(tree.l[3], env).env
             /\ LetNames(tree.l[3]) = {} => env' = env

C3_NoRollback == [][(Evaluated /\ parse(input).ok) => C3_Step]_vars

\* the session ended on the error of (zz) with h bound by the let before it
C3_Witness ==
    /\ input = LetThenFail(N_h, T_14)
    /\ val.k = "Err"
    /\ pc = "error"
    /\ Lookup(N_h, env) = <<"Ok", Number(FromInt(14))>>

\* C3 as first stated: every let whose value expression fails leaves the
\* environment unchanged
C3_FailedLetChangesNothing ==
    [][(Evaluated /\ parse(input).ok)
          => \A tree \in {parse(input).v} :
                (IsLet(tree) /\ val'.k = "Err") => env' = env]_vars

(***************************************************************************)
(* C4: a line whose evaluation fails does not end the session: after an    *)
(* Err of evaluate the loop reads on, and ends only on quit or on the end  *)
(* of the input, never by main returning that Err.                         *)
(***************************************************************************)
C4_ErrorKeepsSession == val.k = "Err" => pc \in {"read", "line", "exit"}

(***************************************************************************)
(* C5: a call binds in its own frame only.  A line that holds no let       *)
(* outside fn forms leaves the environment of the session as it was, also  *)
(* when the body of the Lambda it calls runs let forms; (f 5), whose body  *)
(* binds c and rebinds its parameter b, returns the c of its own frame.    *)
(***************************************************************************)
C5_Step ==
    \A tree \in {parse(input).v} :
    /\ LetNames(tree) = {} => env' = env
    /\ Len(env') = Len(env)
    /\ (input = FnCallText /\ N_f \in DOMAIN env[1])
          => (val'.k = "Ok" /\ val'.v = List(<<Number(FromInt(5))>>))

C5_CallKeepsCallerFrames == [][(Evaluated /\ parse(input).ok) => C5_Step]_vars

\* (f 5) has returned: the b of the session, shadowed during the call, is
\* still 10, and the c that the body bound is not in the session's frame
C5_Witness ==
    /\ input = FnCallText
    /\ pc = "read"
    /\ val.k = "Ok"
    /\ val.v = List(<<Number(FromInt(5))>>)
    /\ Lookup(N_b, env) = <<"Ok", Number(FromInt(10))>>
    /\ N_c \notin DOMAIN env[1]

(***************************************************************************)
(* C6: once factorial is bound, (factorial k) returns k! for k = 0 ..      *)
(* MaxFact and for the k of test_conditional.                              *)
(***************************************************************************)
RECURSIVE Factorial(_)
Factorial(k) == IF k = 0 THEN 1 ELSE k * Factorial(k - 1)

C6_Factorial ==
    \A k \in (0 .. MaxFact) \cup {TestFact} :
       (input = FactCallText(k) /\ pc # "line" /\ N_factorial \in DOMAIN env[1])
          => (val.k = "Ok" /\ val.v = Number(FromInt(Factorial(k))))

\* (factorial 5) has returned 120
C6_Witness ==
    /\ input = FactCallText(TestFact)
    /\ pc = "read"
    /\ val.k = "Ok"
    /\ val.v = Number(FromInt(120))

(***************************************************************************)
(* A session of one line: the state after the first read_line gave a line  *)
(* of Lines, with the root environment still empty, as in the tests of     *)
(* program.rs, which evaluate one source text in a new Environment.        *)
(***************************************************************************)
FirstLine(Lines) ==
    /\ input \in Lines \cup {QuitText}
    /\ val = Ok(Nil, <<new>>)
    /\ env = <<new>>
    /\ out = <<>>
    /\ pc = "line"
    /\ nread = 1

NextOne == Quit \/ Eval \/ ReadEof

\* the line input has been evaluated
Done == pc \in {"read", "error", "abort"} /\ nread = 1

(***************************************************************************)
(* Programs: several top-level expressions in one source text              *)
(***************************************************************************)
\* the number of top-level expressions of a program
MaxExprs == 3

Singles == {LetText(N_b, T_10), LetText(N_h, T_14), AreaText, <<"7">>, N_b}

RECURSIVE ProgramsOf(_)
ProgramsOf(n) ==
    IF n = 1 THEN Singles
    ELSE {p \o <<" ">> \o x : p \in ProgramsOf(n - 1), x \in Singles}

\* the source of test_simple_program
SimpleProgram ==
    LetText(N_b, T_10) \o <<" ">> \o LetText(N_h, T_14) \o <<" ">> \o AreaText

\* the last one: a definition and a call of it in one text, as in test_conditional
ProgramLines ==
    UNION {ProgramsOf(n) : n \in 2 .. MaxExprs}
    \cup {FactDefText \o FactCallText(2)}

SpecProgram == FirstLine(ProgramLines) /\ [][NextOne]_vars

(***************************************************************************)
(* C2: a list whose head is no Symbol evaluates its elements from left to  *)
(* right, each in the environment the one before it left, and returns the  *)
(* List of the results that are not Nil, in that order; the program of     *)
(* test_simple_program returns the List of 70 alone.                       *)
(***************************************************************************)
\* the environment after the elements l[1..i], each evaluated on its own
RECURSIVE EnvAfter(_, _, _)
EnvAfter(l, i, e) ==
    IF i = 0 THEN e ELSE value(l[i], EnvAfter(l, i - 1, e)).env

\* the result of element i, evaluated after the elements before it
ResultOf(l, i, e) == value(l[i], EnvAfter(l, i - 1, e))

NotNil(v) == v # Nil

C2_ElementsInOrder ==
    (Done /\ parse(input).ok) =>
       \A tree \in {parse(input).v} :
       /\ (/\ tree.t = "List"
           /\ tree.l # <<>>
           /\ tree.l[1].t # "Symbol"
           /\ \A i \in DOMAIN tree.l : ResultOf(tree.l, i, <<new>>).k = "Ok")
             => /\ val.k = "Ok"
                /\ val.v = List(SelectSeq([i \in DOMAIN tree.l |->
                                              ResultOf(tree.l, i, <<new>>).v], NotNil))
                /\ env = EnvAfter(tree.l, Len(tree.l), <<new>>)
       /\ input = SimpleProgram
             => (val.k = "Ok" /\ val.v = List(<<Number(FromInt(70))>>))

\* test_simple_program has run: two Nil results dropped, 70 kept
C2_Witness ==
    /\ Done
    /\ input = SimpleProgram
    /\ val.k = "Ok"
    /\ val.v = List(<<Number(FromInt(70))>>)
    /\ Lookup(N_h, env) = <<"Ok", Number(FromInt(14))>>

(***************************************************************************)
(* Operator forms: an operator and two or more integer literals            *)
(***************************************************************************)
\* the number of operands of an operator form
MaxOperands == 3

OperandInts == {-2, 0, 1, 2, 3, 5}

\* the literal of the integer k
IntChars(k) == IF k < 0 THEN <<"-">> \o NatChars(-k) ELSE NatChars(k)

\* (op x1 .. xn)
OpText(op, xs) == Form(<<op>> \o [i \in DOMAIN xs |-> IntChars(xs[i])])

OpLines ==
    UNION {{OpText(op, xs) : op \in Operators, xs \in [1 .. n -> OperandInts]} :
              n \in 2 .. MaxOperands}

SpecOps == FirstLine(OpLines) /\ [][NextOne]_vars

(***************************************************************************)
(* C7: an operator form of two or more numbers is the fold from the left   *)
(* that starts at the first operand and applies the operator at each step, *)
(* a comparison giving 1 or 0 that goes into the next step.                *)
(***************************************************************************)
\* one step on integers; for a comparison the 1 or 0 of its truth
IntStep(op, acc, x) ==
    CASE op = S_add -> acc + x
      [] op = S_sub -> acc - x
      [] op = S_mul -> acc * x
      [] op = S_gt  -> IF acc > x THEN 1 ELSE 0
      [] op = S_gte -> IF acc >= x THEN 1 ELSE 0
      [] op = S_lt  -> IF acc < x THEN 1 ELSE 0
      [] op = S_lte -> IF acc <= x THEN 1 ELSE 0
      [] op = S_eq  -> IF acc = x THEN 1 ELSE 0

\* the fold from the left over xs[1..n]
RECURSIVE IntFold(_, _, _)
IntFold(op, xs, n) ==
    IF n = 1 THEN xs[1] ELSE IntStep(op, IntFold(op, xs, n - 1), xs[n])

\* the product of xs[2..n], the divisors of a division
RECURSIVE Divisors(_, _)
Divisors(xs, n) == IF n = 1 THEN 1 ELSE Divisors(xs, n - 1) * xs[n]

\* the integer an f64 literal of the operator forms stands for
IntOf(x) == x[1] * x[2]

C7_Fold ==
    (Done /\ parse(input).ok) =>
       \A tree \in {parse(input).v} :
       \A xs \in {[i \in 1 .. Len(tree.l) - 1 |-> IntOf(tree.l[i + 1].n)]} :
          /\ val.k = "Ok"
          /\ val.v.t = "Number"
          /\ env = <<new>>
          /\ IF tree.l[1].s # S_div
             THEN FEq(val.v.n, FromInt(IntFold(tree.l[1].s, xs, Len(xs))))
             ELSE IF Divisors(xs, Len(xs)) # 0
                  THEN /\ ~IsInf(val.v.n)
                       /\ FEq(FMul(val.v.n, FromInt(Divisors(xs, Len(xs)))),
                              FromInt(xs[1]))
                  ELSE IsInf(val.v.n) \/ IsNaN(val.v.n)

\* (gt 5 3 1) has been evaluated: 5 > 3 gives 1, and 1 > 1 gives 0
C7_Witness ==
    /\ Done
    /\ input = OpText(S_gt, <<5, 3, 1>>)
    /\ val.k = "Ok"
    /\ val.v = Number(FromInt(0))

(***************************************************************************)
(* cond forms: clauses (test result) and a default.  The result of clause  *)
(* i binds m to i and gives 10 i; the default binds m to 0 and gives 99.   *)
(***************************************************************************)
\* the number of clauses of a cond form
MaxClauses == 2

N_m == <<"m">>

N_t == <<"t">>

\* tests that give a Number that is not zero; 0/0 is NaN, and NaN != 0.0
NonzeroTests ==
    {<<"1">>, <<"-", "2">>, Form(<<S_lt, <<"0">>, <<"1">>>>),
     Form(<<S_div, <<"0">>, <<"0">>>>)}

\* tests that give the Number zero
ZeroTests == {<<"0">>, Form(<<S_eq, <<"1">>, <<"0">>>>)}

\* a test that gives Nil and binds t
NilTest == LetText(N_t, <<"1">>)

\* a test that fails: zz is unbound
FailTest == N_zz

\* in the place of a test: the clause is the number 5, not a list
Bare == <<"5">>

TestTexts == NonzeroTests \cup ZeroTests \cup {NilTest, FailTest, Bare}

ResultText(i) == Form(<<LetText(N_m, NatChars(i)), NatChars(10 * i)>>)

DefaultText == Form(<<LetText(N_m, <<"0">>), <<"9", "9">>>>)

ClauseText(t, i) == IF t = Bare THEN Bare ELSE Form(<<t, ResultText(i)>>)

CondText(ts) ==
    Form(<<S_cond>> \o [i \in DOMAIN ts |-> ClauseText(ts[i], i)] \o <<DefaultText>>)

CondLines ==
    UNION {{CondText(ts) : ts \in [1 .. n -> TestTexts]} : n \in 0 .. MaxClauses}

SpecCond == FirstLine(CondLines) /\ [][NextOne]_vars

(***************************************************************************)
(* C8: cond returns the result of the first clause whose test gives a      *)
(* nonzero Number and evaluates nothing after it: no later test, no later  *)
(* result, not the default; with no such clause it returns the default.    *)
(***************************************************************************)
\* what the test of a clause is, by the texts above
KindOf(clause) ==
    IF clause.t # "List" THEN "bare"
    ELSE IF clause.l[1] \in {parse(t).v : t \in NonzeroTests} THEN "nonzero"
    ELSE IF clause.l[1] \in {parse(t).v : t \in ZeroTests} THEN "zero"
    ELSE IF clause.l[1] = parse(NilTest).v THEN "nil"
    ELSE "fail"

\* the first clause from i on whose test is nonzero or fails, or one more
\* than the number of clauses
RECURSIVE StopAt(_, _)
StopAt(kinds, i) ==
    IF i > Len(kinds) THEN i
    ELSE IF kinds[i] \in {"nonzero", "fail"} THEN i
    ELSE StopAt(kinds, i + 1)

C8_Expected(kinds, stop) ==
    /\ (stop <= Len(kinds) /\ kinds[stop] = "nonzero")
          => /\ val.k = "Ok"
             /\ val.v = List(<<Number(FromInt(10 * stop))>>)
             /\ Lookup(N_m, env) = <<"Ok", Number(FromInt(stop))>>
    /\ (stop <= Len(kinds) /\ kinds[stop] = "fail")
          => /\ val.k = "Err"
             /\ N_m \notin DOMAIN env[1]
    /\ stop > Len(kinds)
          => /\ val.k = "Ok"
             /\ val.v = List(<<Number(FromInt(99))>>)
             /\ Lookup(N_m, env) = <<"Ok", Number(FromInt(0))>>
    /\ N_t \in DOMAIN env[1] <=> \E j \in 1 .. stop - 1 : kinds[j] = "nil"
    /\ DOMAIN env[1] \subseteq {N_m, N_t}

C8_FirstMatch ==
    (Done /\ parse(input).ok) =>
       \A tree \in {parse(input).v} :
       \A kinds \in {[j \in 1 .. Len(tree.l) - 2 |-> KindOf(tree.l[j + 1])]} :
          C8_Expected(kinds, StopAt(kinds, 1))

\* the first clause matched: its result is returned, and the let that is
\* the test of the second clause has not run
C8_Witness ==
    /\ Done
    /\ input = CondText(<<<<"1">>, NilTest>>)
    /\ val.k = "Ok"
    /\ val.v = List(<<Number(FromInt(10))>>)
    /\ Lookup(N_m, env) = <<"Ok", Number(FromInt(1))>>
    /\ N_t \notin DOMAIN env[1]

(***************************************************************************)
(* Special forms with the wrong and with the right number of elements      *)
(***************************************************************************)
\* (let b 1), as an operand that would bind b if it were evaluated
BindsB == LetText(N_b, <<"1">>)

WrongOperatorForms ==
    {Form(<<op>>) : op \in Operators}
    \cup {Form(<<op, x>>) : op \in Operators, x \in {<<"4">>, BindsB}}

WrongNotForms ==
    {Form(<<S_not>>), Form(<<S_not, <<"1">>, <<"0">>>>),
     Form(<<S_not, BindsB, <<"0">>>>)}

WrongLetForms ==
    {Form(<<S_let>>), Form(<<S_let, N_b>>), Form(<<S_let, N_b, <<"1">>, <<"2">>>>),
     Form(<<S_let, N_b, BindsB, <<"2">>>>)}

WrongFnForms ==
    {Form(<<S_fn>>), Form(<<S_fn, Form(<<N_b>>)>>),
     Form(<<S_fn, Form(<<N_b>>), Form(<<N_b>>), Form(<<N_b>>)>>)}

RightForms ==
    {Form(<<op, <<"4">>, <<"4">>>>) : op \in Operators}
    \cup {Form(<<S_not, <<"1">>>>), BindsB, Form(<<S_fn, Form(<<N_b>>), Form(<<N_b>>)>>)}

FormLines ==
    WrongOperatorForms \cup WrongNotForms \cup WrongLetForms \cup WrongFnForms
    \cup RightForms

SpecForms == FirstLine(FormLines) /\ [][NextOne]_vars

(***************************************************************************)
(* C9: a special form with the wrong number of elements gives a runtime    *)
(* error and leaves the environment as it was: an operator form of fewer   *)
(* than 3 elements, a not form of other than 2, a let form of other than   *)
(* 3, a fn form of other than 3.                                           *)
(***************************************************************************)
C9_WrongArityIsError ==
    (Done /\ input \in WrongOperatorForms \cup WrongNotForms
                          \cup WrongLetForms \cup WrongFnForms)
       => (val.k = "Err" /\ env = <<new>>)

(***************************************************************************)
(* Texts over a small alphabet, parsed and rendered.  pc is "text" before  *)
(* parse is called, "parsed" once it returned Ok, "rejected" once it       *)
(* returned Err, "shown" once the Value has been formatted into out.       *)
(***************************************************************************)
\* the number of characters of a text
MaxLen == 4

Alphabet == {"(", ")", " ", "a", "1", "0", ".", "-"}

Texts == UNION {[1 .. n -> Alphabet] : n \in 0 .. MaxLen}

InitParse ==
    /\ input \in Texts
    /\ val = PErr("")
    /\ env = <<new>>
    /\ out = <<>>
    /\ pc = "text"
    /\ nread = 0

DoParse ==
    /\ pc = "text"
    /\ val' = parse(input)
    /\ pc' = IF val'.ok THEN "parsed" ELSE "rejected"
    /\ UNCHANGED <<input, env, out, nread>>

DoDisplay ==
    /\ pc = "parsed"
    /\ out' = Display(val.v)
    /\ pc' = "shown"
    /\ UNCHANGED <<input, val, env, nread>>

NextParse == DoParse \/ DoDisplay

SpecParse == InitParse /\ [][NextParse]_vars

(***************************************************************************)
(* C10, as stated: for every well-formed input that holds a token, the     *)
(* rendering of the parsed Value has the tokens of the input, parentheses  *)
(* included, whether the input is one expression or several.               *)
(***************************************************************************)
C10_SameTokens ==
    (pc = "shown" /\ tokenize(input) # <<>>) => tokenize(out) = tokenize(input)

(***************************************************************************)
(* C10, amended: the rendering of a well-formed input with exactly one     *)
(* top-level expression has the tokens of the input, a number being the    *)
(* same token whatever its spelling; the rendering of an input with no or  *)
(* with several top-level expressions has the tokens of the input inside   *)
(* one more pair of parentheses.                                           *)
(***************************************************************************)
C10_RoundTrip ==
    pc = "shown" =>
       \A exprs \in {parse_all(tokenize(input), <<>>).v} :
          IF Len(exprs) = 1
          THEN tokenize(out) = tokenize(input)
          ELSE tokenize(out) = <<LParen>> \o tokenize(input) \o <<RParen>>

\* a list of a number and a symbol written with no space between them: the
\* rendering puts the space in, and the tokens are the same
C10_Witness ==
    /\ pc = "shown"
    /\ input = <<"(", "1", "a", ")">>
    /\ out = <<"(", "1", " ", "a", ")">>
    /\ tokenize(out) = tokenize(input)

(***************************************************************************)
(* Scope: a function g that reads x, free in its body, called from the     *)
(* body of a function whose parameter is x or y.  In                       *)
(*   (let x G) (let g (fn (w) (+ x w))) (let h (fn (P) (g P))) (h A)       *)
(* the call of g is made from the frame of h; in the nested form h has the *)
(* parameter z and is called from k, (let k (fn (P) (h P))) (k A), so two  *)
(* frames lie between g and the root.  (let x G) may be missing.           *)
(***************************************************************************)
\* the numbers bound to x at the top level and passed as the argument
MaxVal == 4

N_x == <<"x">>

N_y == <<"y">>

N_z == <<"z">>

N_w == <<"w">>

N_g == <<"g">>

N_k == <<"k">>

\* (let name (fn (param) body))
FnText(name, param, bodytext) ==
    LetText(name, Form(<<S_fn, Form(<<param>>), bodytext>>))

\* the texts of ts on one line, a space between two of them
Line(ts) == Join(ts, 1)

\* G = 0: no (let x G)
ScopeText(G, A, P, nested) ==
    Line((IF G = 0 THEN <<>> ELSE <<LetText(N_x, NatChars(G))>>)
         \o <<FnText(N_g, N_w, Form(<<S_add, N_x, N_w>>))>>
         \o (IF nested
             THEN <<FnText(N_h, N_z, Form(<<N_g, N_z>>)),
                    FnText(N_k, P, Form(<<N_h, P>>)),
                    Form(<<N_k, NatChars(A)>>)>>
             ELSE <<FnText(N_h, P, Form(<<N_g, P>>)),
                    Form(<<N_h, NatChars(A)>>)>>))

ScopeLines ==
    {ScopeText(G, A, P, nested) :
        G \in 0 .. MaxVal, A \in 1 .. MaxVal, P \in {N_x, N_y}, nested \in BOOLEAN}

SpecScope == FirstLine(ScopeLines) /\ [][NextOne]_vars

(***************************************************************************)
(* C11: a Lambda does not capture the scope of its definition.  g is       *)
(* defined at the top level, where x is G or unbound; called below a frame *)
(* that binds the parameter x to A, its free x reads A, so the program     *)
(* gives A + A.  Called below frames that bind y only, its x reads the     *)
(* top level: G + A, or the error of an unbound symbol.  The argument of   *)
(* each call is read in the frame of the caller.                           *)
(***************************************************************************)
C11_DynamicScope ==
    \A G \in 0 .. MaxVal, A \in 1 .. MaxVal, P \in {N_x, N_y}, nested \in BOOLEAN :
       (Done /\ input = ScopeText(G, A, P, nested)) =>
          /\ P = N_x => (val.k = "Ok" /\ val.v = List(<<Number(FromInt(A + A))>>))
          /\ (P = N_y /\ G > 0)
                => (val.k = "Ok" /\ val.v = List(<<Number(FromInt(G + A))>>))
          /\ (P = N_y /\ G = 0)
                => (val.k = "Err" /\ val.err = <<"Unbound symbol ", N_x>>)

\* x is 1 where g is defined and 3 in the frame of k, two calls above g:
\* g gives 3 + 3
C11_Witness ==
    /\ Done
    /\ input = ScopeText(1, 3, N_x, TRUE)
    /\ val.k = "Ok"
    /\ val.v = List(<<Number(FromInt(6))>>)
    /\ Lookup(N_x, env) = <<"Ok", Number(FromInt(1))>>

(***************************************************************************)
(* Source texts of any shape: every text over the alphabet, the empty text *)
(* and the empty list among them, and short forms: a cond of no clause, a  *)
(* fn of no parameter list, a fn of no body, and a call of a function      *)
(* whose body is the empty list.                                           *)
(***************************************************************************)
CondAlone == Form(<<S_cond>>)

FnAlone == Form(<<S_fn>>)

FnNoBody == Form(<<S_fn, Form(<<N_b>>)>>)

\* (let f (fn () ())) (f)
EmptyBodyCall ==
    Line(<<LetText(N_f, Form(<<S_fn, Form(<<>>), Form(<<>>)>>)), Form(<<N_f>>)>>)

SourceTexts == Texts \cup {CondAlone, FnAlone, FnNoBody, EmptyBodyCall}

SpecSource == FirstLine(SourceTexts) /\ [][NextOne]_vars

(***************************************************************************)
(* C12: evaluate always returns, a Value or an error string: whatever the  *)
(* source text, the evaluation of a line ends with Ok or Err and the       *)
(* process does not abort.                                                 *)
(***************************************************************************)
C12_NeverAborts == Done => (val.k \in {"Ok", "Err"} /\ pc # "abort")

====
